---- MODULE Spec2Model ----
(***************************************************************************)
(* SlowQueryAnalyzer (slow_query_analyzer.py): extraction, classification, *)
(* aggregation and ranking of slow-query log entries.                      *)
(*                                                                         *)
(* Python strings are sequences of one-character strings.  A list of       *)
(* dicts is a sequence of records; a reference to a dict held in           *)
(* self.queries is the dict's index in self.queries.                       *)
(***************************************************************************)
EXTENDS Integers, Sequences, FiniteSets, TLC

\* ------------------------------------------------------------------ bounds
MaxFiles  == 2   \* files found by _find_repository_files
MaxTokens == 2   \* tokens of text over all files of the file system
MaxK      == 3   \* largest top-k requested
MaxRuns   == 2   \* calls of parse_log_files on one analyzer
MaxPieces == 3   \* pieces of text concatenated into one SQL fragment

PreviewLen == 200

\* ----------------------------------------------------------------- strings
UpperChars == <<"A","B","C","D","E","F","G","H","I","J","K","L","M",
                "N","O","P","Q","R","S","T","U","V","W","X","Y","Z">>
LowerChars == <<"a","b","c","d","e","f","g","h","i","j","k","l","m",
                "n","o","p","q","r","s","t","u","v","w","x","y","z">>
DigitChars == <<"0","1","2","3","4","5","6","7","8","9">>

Range(s) == {s[i] : i \in DOMAIN s}

\* str.lower() on one character
LowerChar(c) ==
    IF \E i \in DOMAIN UpperChars : UpperChars[i] = c
    THEN LowerChars[CHOOSE i \in DOMAIN UpperChars : UpperChars[i] = c]
    ELSE c

\* str.lower()
Lower(s) == [i \in DOMAIN s |-> LowerChar(s[i])]

\* the regex class \s and the characters str.strip() removes
IsSpace(c) == c \in {" ", "\t", "\n", "\r"}

\* the regex class \w
IsWord(c) == c \in Range(UpperChars) \cup Range(LowerChars) \cup Range(DigitChars) \cup {"_"}

\* str.strip()
Strip(s) ==
    IF \A i \in DOMAIN s : IsSpace(s[i]) THEN <<>>
    ELSE LET lo == CHOOSE i \in DOMAIN s :
                      /\ ~IsSpace(s[i])
                      /\ \A j \in 1..(i-1) : IsSpace(s[j])
             hi == CHOOSE i \in DOMAIN s :
                      /\ ~IsSpace(s[i])
                      /\ \A j \in (i+1)..Len(s) : IsSpace(s[j])
         IN SubSeq(s, lo, hi)

\* s[i-1:].startswith(lit), i counted from 1
LitAt(s, i, lit) ==
    /\ i + Len(lit) - 1 <= Len(s)
    /\ \A j \in DOMAIN lit : s[i + j - 1] = lit[j]

\* str.startswith
StartsWith(s, lit) == LitAt(s, 1, lit)

\* first index >= i of s that holds no whitespace (Len(s)+1 when none)
SkipSpace(s, i) ==
    IF \E j \in i..Len(s) : ~IsSpace(s[j])
    THEN CHOOSE j \in i..Len(s) : ~IsSpace(s[j]) /\ \A m \in i..(j-1) : IsSpace(s[m])
    ELSE Len(s) + 1

\* first index >= i of s that holds no word character (Len(s)+1 when none)
SkipWord(s, i) ==
    IF \E j \in i..Len(s) : ~IsWord(s[j])
    THEN CHOOSE j \in i..Len(s) : ~IsWord(s[j]) /\ \A m \in i..(j-1) : IsWord(s[m])
    ELSE Len(s) + 1

\* int() of a run of decimal digits
RECURSIVE ParseInt(_)
ParseInt(t) ==
    IF t = <<>> THEN 0
    ELSE 10 * ParseInt(SubSeq(t, 1, Len(t) - 1))
         + ((CHOOSE d \in DOMAIN DigitChars : DigitChars[d] = t[Len(t)]) - 1)

\* ---------------------------------------------------------------- patterns
\* The patterns of _extract_operation_and_table are literals separated by
\* \s+ and closed by \s+(\w+): a pattern is the sequence of its literals.
\* MatchEnd is 0 when the pattern does not match at i, else the index of the
\* first character of the group (\w+).
RECURSIVE MatchEnd(_, _, _)
MatchEnd(s, i, lits) ==
    IF ~LitAt(s, i, Head(lits)) THEN 0
    ELSE LET j == i + Len(Head(lits))
             k == SkipSpace(s, j)
         IN IF k = j \/ k > Len(s) THEN 0
            ELSE IF Len(lits) = 1
                 THEN (IF IsWord(s[k]) THEN k ELSE 0)
                 ELSE MatchEnd(s, k, Tail(lits))

\* re.search(pattern, s): the group of the leftmost match, <<>> when none
\* (a group of \w+ is never empty)
ReSearchGroup(s, lits) ==
    IF \E i \in DOMAIN s : MatchEnd(s, i, lits) # 0
    THEN LET i == CHOOSE i \in DOMAIN s :
                     /\ MatchEnd(s, i, lits) # 0
                     /\ \A m \in 1..(i-1) : MatchEnd(s, m, lits) = 0
             k == MatchEnd(s, i, lits)
         IN SubSeq(s, k, SkipWord(s, k) - 1)
    ELSE <<>>

kwSelect == <<"s","e","l","e","c","t">>
kwInsert == <<"i","n","s","e","r","t">>
kwUpdate == <<"u","p","d","a","t","e">>
kwDelete == <<"d","e","l","e","t","e">>
kwFrom   == <<"f","r","o","m">>
kwInto   == <<"i","n","t","o">>
Unknown  == <<"u","n","k","n","o","w","n">>

\* group(1) if the match exists, else 'unknown'
TableOf(s, lits) ==
    LET g == ReSearchGroup(s, lits) IN IF g = <<>> THEN Unknown ELSE g

\* _extract_operation_and_table
ExtractOperationAndTable(query) ==
    LET query_lower == Lower(query) IN
    IF StartsWith(query_lower, kwSelect)
    THEN <<"SELECT", TableOf(query_lower, <<kwFrom>>)>>
    ELSE IF StartsWith(query_lower, kwInsert)
    THEN <<"INSERT", TableOf(query_lower, <<kwInsert, kwInto>>)>>
    ELSE IF StartsWith(query_lower, kwUpdate)
    THEN <<"UPDATE", TableOf(query_lower, <<kwUpdate>>)>>
    ELSE IF StartsWith(query_lower, kwDelete)
    THEN <<"DELETE", TableOf(query_lower, <<kwDelete, kwFrom>>)>>
    ELSE <<"OTHER", Unknown>>

\* the characters of an operation tag
OpChars(op) ==
    CASE op = "SELECT" -> <<"S","E","L","E","C","T">>
      [] op = "INSERT" -> <<"I","N","S","E","R","T">>
      [] op = "UPDATE" -> <<"U","P","D","A","T","E">>
      [] op = "DELETE" -> <<"D","E","L","E","T","E">>
      [] op = "OTHER"  -> <<"O","T","H","E","R">>

\* f'{operation} {table}'
QueryType(operation, table) == OpChars(operation) \o <<" ">> \o table

\* query_clean[:200] + '...' if len(query_clean) > 200 else query_clean
QueryPreview(query_clean) ==
    IF Len(query_clean) > PreviewLen
    THEN SubSeq(query_clean, 1, PreviewLen) \o <<".", ".", ".">>
    ELSE query_clean

\* ------------------------------------------------------------------- input
\* A path is its directory and its base name; AllPaths lists the paths the
\* input pattern can match, in the order sorted() gives them.
AllPaths == << [dir |-> "a", base |-> "repository.log"],
               [dir |-> "b", base |-> "repository.log"],
               [dir |-> "b", base |-> "repository2.log"] >>

\* os.path.basename
Basename(file_path) == file_path.base

\* The decoded text of a file is a sequence of tokens: a token is either a
\* span the slow-query pattern matches, given by the pattern's three groups
\* (timestamp, digits, SQL fragment), or other text.
Junk == [junk |-> TRUE]

Timestamp == "2024-01-01 10:00:00.123"

Entry(time_ms, query) ==
    [junk |-> FALSE, timestamp |-> Timestamp, time_ms |-> time_ms, query |-> query]

FragSelect == <<" ","s","e","l","e","c","t"," ","a"," ","F","r","o","m"," ","T","1"," ">>
FragShow   == <<"S","H","O","W">>

\* the entries the files of Spec hold
Entries == {Entry(<<"7">>, FragSelect), Entry(<<"1","2">>, FragSelect),
            Entry(<<"7">>, FragShow)}

\* texts of at most n tokens
TextsOver(tokens, n) == UNION {[1..m -> tokens] : m \in 0..n}

\* a file on disk: whether it can be read and decoded, and its decoded text
FilesOver(tokens, n) ==
    {[readable |-> TRUE, text |-> t] : t \in TextsOver(tokens, n)}
        \cup {[readable |-> FALSE, text |-> <<>>]}

\* the contents of n files holding at most budget tokens together
RECURSIVE DiskOver(_, _, _)
DiskOver(tokens, n, budget) ==
    IF n = 0 THEN {<<>>}
    ELSE UNION {{<<f>> \o rest : rest \in DiskOver(tokens, n - 1, budget - Len(f.text))} :
                    f \in FilesOver(tokens, budget)}

\* the strictly increasing sequences of n indices from lo to hi
RECURSIVE Chosen(_, _, _)
Chosen(n, lo, hi) ==
    IF n = 0 THEN {<<>>}
    ELSE UNION {{<<i>> \o rest : rest \in Chosen(n - 1, i + 1, hi)} : i \in lo..hi}

MinOf(a, b) == IF a <= b THEN a ELSE b
MaxOf(a, b) == IF a >= b THEN a ELSE b

\* --------------------------------------------------------------------- state
VARIABLES
    found,         \* what _find_repository_files returns for log_input
    disk,          \* disk[i]: the file at found[i]
    file_list,     \* self.file_list
    queries,       \* self.queries
    query_groups,  \* self.query_groups, in insertion order: [key, members],
                   \* members the references (indices in queries) appended
    file_stats,    \* self.file_stats, in insertion order
    pc,            \* where the caller of the analyzer is
    fi,            \* parse_log_files: index of file_path in file_list
    total_queries, \* parse_log_files: total_queries
    matches,       \* _parse_single_file: matches not yet iterated
    file_queries,  \* _parse_single_file: file_queries
    content_len,   \* _parse_single_file: len(content)
    runs,          \* completed calls of parse_log_files
    first_run,     \* the groups (key, hits, total) when the first call returned
    result,        \* what the last call on the analyzer returned
    printed        \* the sections main has printed

vars == <<found, disk, file_list, queries, query_groups, file_stats, pc, fi,
          total_queries, matches, file_queries, content_len, runs, first_run, result,
          printed>>

None == [kind |-> "None"]

\* __init__, with at most `files` files found among `paths`, holding at most `budget`
\* tokens drawn from `entries` and other text
InitOver(paths, entries, files, budget) ==
    /\ \E n \in 0..MinOf(files, Len(paths)) :
         /\ \E c \in Chosen(n, 1, Len(paths)) : found = [i \in 1..n |-> paths[c[i]]]
         /\ disk \in DiskOver(entries \cup {Junk}, n, budget)
    /\ file_list = <<>>
    /\ queries = <<>>
    /\ query_groups = <<>>
    /\ file_stats = <<>>
    /\ pc = "idle"
    /\ fi = 0
    /\ total_queries = 0
    /\ matches = <<>>
    /\ file_queries = 0
    /\ content_len = 0
    /\ runs = 0
    /\ first_run = <<>>
    /\ result = None
    /\ printed = <<>>

Init == InitOver(AllPaths, Entries, MaxFiles, MaxTokens)

\* ------------------------------------------------------------------- parsing
\* _read_file_content: the decoded text, '' when reading or decoding fails
ReadFileContent(i) == IF disk[i].readable THEN disk[i].text ELSE <<>>

\* re.findall(pattern, content, re.DOTALL): the groups of the matches, in order
SelectEntries(content) == SelectSeq(content, LAMBDA t : ~t.junk)
FindAll(content) ==
    LET e == SelectEntries(content)
    IN [j \in DOMAIN e |-> <<e[j].timestamp, e[j].time_ms, e[j].query>>]

\* the dict _parse_single_file builds for one match
QueryInfo(m, file_path) ==
    LET query_clean == Strip(m[3])
        ot == ExtractOperationAndTable(query_clean)
    IN [timestamp      |-> m[1],
        execution_time |-> ParseInt(m[2]),
        operation      |-> ot[1],
        table          |-> ot[2],
        query_type     |-> QueryType(ot[1], ot[2]),
        query          |-> query_clean,
        query_preview  |-> QueryPreview(query_clean),
        source_file    |-> Basename(file_path)]

\* GroupAppend with a list created for every record, as if the key were never found
GroupAppendAlwaysNew(groups, key, ref) ==
    Append(groups, [key |-> key, members |-> <<ref>>])

\* self.query_groups[key].append(ref) on a defaultdict(list)
GroupAppend(groups, key, ref) ==
    IF \E g \in DOMAIN groups : groups[g].key = key
    THEN [g \in DOMAIN groups |->
            IF groups[g].key = key
            THEN [groups[g] EXCEPT !.members = Append(@, ref)]
            ELSE groups[g]]
    ELSE Append(groups, [key |-> key, members |-> <<ref>>])

\* self.file_stats[file_path] = {...}
StatsStore(stats, file_path, entry) ==
    IF \E s \in DOMAIN stats : stats[s].path = file_path
    THEN [s \in DOMAIN stats |-> IF stats[s].path = file_path THEN entry ELSE stats[s]]
    ELSE Append(stats, entry)

\* the groups as (key, hits, total execution time)
Total(groups, qs, g) ==
    LET RECURSIVE Sum(_)
        Sum(n) == IF n = 0 THEN 0
                  ELSE Sum(n - 1) + qs[groups[g].members[n]].execution_time
    IN Sum(Len(groups[g].members))

Summary(groups, qs) ==
    {<<groups[g].key, Len(groups[g].members), Total(groups, qs, g)>> : g \in DOMAIN groups}

\* parse_log_files, lines 196-208: the file list is found; none: return
ParseLogFiles ==
    /\ pc \in {"idle", "done"}
    /\ runs < MaxRuns
    /\ file_list' = found
    /\ IF found = <<>>
       THEN /\ pc' = "done"
            /\ runs' = runs + 1
            /\ first_run' = IF runs = 0 THEN Summary(query_groups, queries) ELSE first_run
            /\ UNCHANGED <<fi, total_queries>>
       ELSE /\ pc' = "loop"
            /\ fi' = 1
            /\ total_queries' = 0
            /\ UNCHANGED <<runs, first_run>>
    /\ result' = None
    /\ UNCHANGED <<printed, found, disk, queries, query_groups, file_stats, matches,
                   file_queries, content_len>>

\* ParseSingleFile leaving the loop of parse_log_files on a file that gives nothing
ParseSingleFileStops ==
    /\ pc = "loop"
    /\ fi <= Len(file_list)
    /\ LET content == ReadFileContent(fi)
           ms == FindAll(content)
       IN IF content = <<>> \/ ms = <<>>
          THEN /\ fi' = Len(file_list) + 1
               /\ UNCHANGED <<pc, matches, file_queries, content_len>>
          ELSE /\ pc' = "match"
               /\ matches' = ms
               /\ file_queries' = 0
               /\ content_len' = Len(content)
               /\ UNCHANGED fi
    /\ UNCHANGED <<printed, found, disk, file_list, queries, query_groups, file_stats,
                   total_queries, runs, first_run, result>>

\* _parse_single_file, lines 145-161: read, match; nothing read or nothing
\* matched: return 0 and go on with the next file
ParseSingleFile ==
    /\ pc = "loop"
    /\ fi <= Len(file_list)
    /\ LET content == ReadFileContent(fi)
           ms == FindAll(content)
       IN IF content = <<>> \/ ms = <<>>
          THEN /\ fi' = fi + 1
               /\ UNCHANGED <<pc, matches, file_queries, content_len>>
          ELSE /\ pc' = "match"
               /\ matches' = ms
               /\ file_queries' = 0
               /\ content_len' = Len(content)
               /\ UNCHANGED fi
    /\ UNCHANGED <<printed, found, disk, file_list, queries, query_groups, file_stats,
                   total_queries, runs, first_run, result>>

\* lines 162-179: the next match becomes a dict, appended to self.queries
AppendQuery ==
    /\ pc = "match"
    /\ matches # <<>>
    /\ queries' = Append(queries, QueryInfo(Head(matches), file_list[fi]))
    /\ pc' = "group"
    /\ UNCHANGED <<printed, found, disk, file_list, query_groups, file_stats, fi, total_queries,
                   matches, file_queries, content_len, runs, first_run, result>>

\* lines 180-181: the same dict is appended to its group, and counted
AppendGroup ==
    /\ pc = "group"
    /\ query_groups' = GroupAppend(query_groups, queries[Len(queries)].query_type,
                                   Len(queries))
    /\ file_queries' = file_queries + 1
    /\ matches' = Tail(matches)
    /\ pc' = "match"
    /\ UNCHANGED <<printed, found, disk, file_list, queries, file_stats, fi, total_queries,
                   content_len, runs, first_run, result>>

\* lines 183-192 and 211: the file's stats are stored, its count is added
FileDone ==
    /\ pc = "match"
    /\ matches = <<>>
    /\ file_stats' = StatsStore(file_stats, file_list[fi],
                                [path      |-> file_list[fi],
                                 queries   |-> file_queries,
                                 file_size |-> content_len,
                                 basename  |-> Basename(file_list[fi])])
    /\ total_queries' = total_queries + file_queries
    /\ fi' = fi + 1
    /\ pc' = "loop"
    /\ file_queries' = 0
    /\ content_len' = 0
    /\ UNCHANGED <<printed, found, disk, file_list, queries, query_groups, matches, runs,
                   first_run, result>>

\* lines 213-217: every file is processed, parse_log_files returns
ParseReturn ==
    /\ pc = "loop"
    /\ fi > Len(file_list)
    /\ pc' = "done"
    /\ runs' = runs + 1
    /\ first_run' = IF runs = 0 THEN Summary(query_groups, queries) ELSE first_run
    /\ UNCHANGED <<printed, found, disk, file_list, queries, query_groups, file_stats, fi,
                   total_queries, matches, file_queries, content_len, result>>

\* main, lines 467-475: KeyboardInterrupt while the call of parse_log_files
\* that main makes is running; the frames of parse_log_files and
\* _parse_single_file are gone
Interrupt ==
    /\ pc \in {"loop", "match", "group"}
    /\ runs = 0
    /\ pc' = "interrupted"
    /\ fi' = 0
    /\ total_queries' = 0
    /\ matches' = <<>>
    /\ file_queries' = 0
    /\ content_len' = 0
    /\ UNCHANGED <<printed, found, disk, file_list, queries, query_groups, file_stats, runs,
                   first_run, result>>

\* ------------------------------------------------------------------ ranking
ZeroDivisionError == [kind |-> "ZeroDivisionError"]

RECURSIVE Gcd(_, _)
Gcd(a, b) == IF b = 0 THEN a ELSE Gcd(b, a % b)

\* TrueDiv as floor division (a // b)
FloorDiv(a, b) ==
    IF b = 0 THEN ZeroDivisionError
    ELSE [kind |-> "number", num |-> a \div b, den |-> 1]

\* a / b on non-negative integers: the quotient as a fraction in lowest
\* terms, ZeroDivisionError when b is 0
TrueDiv(a, b) ==
    IF b = 0 THEN ZeroDivisionError
    ELSE [kind |-> "number", num |-> a \div Gcd(a, b), den |-> b \div Gcd(a, b)]

RECURSIVE SumSeq(_)
SumSeq(t) == IF t = <<>> THEN 0 ELSE Head(t) + SumSeq(Tail(t))

\* max(times), min(times) of a non-empty list
MaxSeq(t) == CHOOSE x \in Range(t) : \A y \in Range(t) : y <= x
MinSeq(t) == CHOOSE x \in Range(t) : \A y \in Range(t) : x <= y

\* comparison of two key tuples of the same length, as Python compares tuples
RECURSIVE KeyLess(_, _)
KeyLess(a, b) ==
    IF a = <<>> THEN FALSE
    ELSE IF Head(a) # Head(b) THEN Head(a) < Head(b)
    ELSE KeyLess(Tail(a), Tail(b))

\* SortedDesc as an ascending sort reversed: items of equal key in reverse order
RECURSIVE SortedTiesReversed(_, _)
SortedTiesReversed(keys, n) ==
    IF n = 0 THEN <<>>
    ELSE LET p == SortedTiesReversed(keys, n - 1)
             c == Cardinality({i \in DOMAIN p : KeyLess(keys[n], keys[p[i]])})
         IN SubSeq(p, 1, c) \o <<n>> \o SubSeq(p, c + 1, Len(p))

\* list.sort(key=..., reverse=True) and sorted(..., reverse=True) on the
\* first n items: the indices of the items by descending key, items of equal
\* key in their original order
RECURSIVE SortedDesc(_, _)
SortedDesc(keys, n) ==
    IF n = 0 THEN <<>>
    ELSE LET p == SortedDesc(keys, n - 1)
             c == Cardinality({i \in DOMAIN p : ~KeyLess(keys[p[i]], keys[n])})
         IN SubSeq(p, 1, c) \o <<n>> \o SubSeq(p, c + 1, Len(p))

\* Slice as results[:k + 1]
SliceOneMore(results, k) ==
    IF k + 1 >= 0 THEN SubSeq(results, 1, MinOf(k + 1, Len(results)))
    ELSE SubSeq(results, 1, MaxOf(0, Len(results) + k + 1))

\* results[:k]
Slice(results, k) ==
    IF k >= 0 THEN SubSeq(results, 1, MinOf(k, Len(results)))
    ELSE SubSeq(results, 1, MaxOf(0, Len(results) + k))

\* lines 243-254 and 272-283: the dict built for one group
GroupResult(group, qs) ==
    LET times == [i \in DOMAIN group.members |-> qs[group.members[i]].execution_time]
    IN IF times = <<>> THEN ZeroDivisionError
       ELSE [kind             |-> "group",
             query_type       |-> group.key,
             hits             |-> Len(group.members),
             total_time       |-> SumSeq(times),
             avg_time         |-> TrueDiv(SumSeq(times), Len(times)),
             max_time         |-> MaxSeq(times),
             min_time         |-> MinSeq(times),
             sample_query     |-> qs[group.members[1]].query_preview,
             sample_timestamp |-> qs[group.members[1]].timestamp]

\* the loops of lines 242-255 and 271-284
GroupResults(groups, qs) == [g \in DOMAIN groups |-> GroupResult(groups[g], qs)]

\* HitsKey without the second key
HitsOnlyKey(x) == <<x.hits>>

\* the sort keys of lines 258, 264 and 287
HitsKey(x) == <<x.hits, x.total_time>>
TimeKey(x) == <<x.execution_time>>
TotalTimeKey(x) == <<x.total_time>>

Raised(e) == [kind |-> "raised", k |-> 0, value |-> e]
Returned(kind, k, value) == [kind |-> kind, k |-> k, value |-> value]

\* get_top_k_by_hits(k)
TopKByHits(groups, qs, k) ==
    LET results == GroupResults(groups, qs)
    IN IF \E g \in DOMAIN results : results[g] = ZeroDivisionError
       THEN Raised(ZeroDivisionError)
       ELSE LET p == SortedDesc([g \in DOMAIN results |-> HitsKey(results[g])], Len(results))
            IN Returned("hits", k, Slice([i \in DOMAIN p |-> results[p[i]]], k))

\* get_top_k_by_time(k): the list holds references to the dicts of self.queries
TopKByTime(qs, k) ==
    LET p == SortedDesc([i \in DOMAIN qs |-> TimeKey(qs[i])], Len(qs))
    IN Returned("time", k, Slice(p, k))

\* get_top_k_by_total_time(k)
TopKByTotalTime(groups, qs, k) ==
    LET results == GroupResults(groups, qs)
    IN IF \E g \in DOMAIN results : results[g] = ZeroDivisionError
       THEN Raised(ZeroDivisionError)
       ELSE LET p == SortedDesc([g \in DOMAIN results |-> TotalTimeKey(results[g])],
                                Len(results))
            IN Returned("total", k, Slice([i \in DOMAIN p |-> results[p[i]]], k))

\* lines 299-304: the dict keyed by base name, a later entry of file_stats
\* replacing an earlier one of the same base name
SourceFiles(stats) ==
    [b \in {stats[s].basename : s \in DOMAIN stats} |->
        LET last == CHOOSE s \in DOMAIN stats :
                        /\ stats[s].basename = b
                        /\ \A u \in DOMAIN stats : stats[u].basename = b => u <= s
        IN [queries |-> stats[last].queries, file_size |-> stats[last].file_size]]

\* lines 295-316 of get_statistics (analysis_timestamp, the wall clock, left out)
StatisticsOf(files, groups, qs, stats) ==
    LET times == [i \in DOMAIN qs |-> qs[i].execution_time]
        avg == TrueDiv(SumSeq(times), Len(times))
    IN IF avg = ZeroDivisionError THEN avg
       ELSE [kind                   |-> "statistics",
             total_slow_queries     |-> Len(qs),
             unique_query_types     |-> Len(groups),
             files_processed        |-> Len(files),
             source_files           |-> SourceFiles(stats),
             total_execution_time   |-> SumSeq(times),
             average_execution_time |-> avg,
             max_execution_time     |-> MaxSeq(times),
             min_execution_time     |-> MinSeq(times)]

EmptyDict == [kind |-> "empty"]

\* Statistics without the test of line 292
StatisticsUnguarded(files, groups, qs, stats) == StatisticsOf(files, groups, qs, stats)

\* get_statistics: {} when there is no record
Statistics(files, groups, qs, stats) ==
    IF qs = <<>> THEN EmptyDict ELSE StatisticsOf(files, groups, qs, stats)

\* generate_report(top_k)
Report(files, groups, qs, stats, k) ==
    LET st == Statistics(files, groups, qs, stats)
        h == TopKByHits(groups, qs, k)
        t == TopKByTime(qs, k)
        tt == TopKByTotalTime(groups, qs, k)
    IN IF st = ZeroDivisionError \/ h.kind = "raised" \/ tt.kind = "raised"
       THEN Raised(ZeroDivisionError)
       ELSE Returned("report", k,
                     [statistics |-> st, top_by_hits |-> h.value,
                      top_by_individual_time |-> t.value, top_by_total_time |-> tt.value])

\* the values of --top-k the model requests
TopKs == (-1)..MaxK

\* the analyzer takes a call when no call on it is running and the caller
\* holds no result of an earlier call
Callable == pc \in {"idle", "done", "interrupted"} /\ result = None

frame == <<found, disk, file_list, queries, query_groups, file_stats, pc, fi,
           total_queries, matches, file_queries, content_len, runs, first_run, printed>>

GetTopKByHits ==
    /\ Callable
    /\ \E k \in TopKs : result' = TopKByHits(query_groups, queries, k)
    /\ UNCHANGED frame

\* GetTopKByTime sorting self.queries in place (self.queries.sort(...)) and
\* returning its first k items; the groups go on holding the same dicts
GetTopKByTimeInPlace ==
    /\ Callable
    /\ LET p == SortedDesc([i \in DOMAIN queries |-> TimeKey(queries[i])], Len(queries))
           At(r) == CHOOSE i \in DOMAIN p : p[i] = r
       IN /\ queries' = [i \in DOMAIN p |-> queries[p[i]]]
          /\ query_groups' = [g \in DOMAIN query_groups |->
                [query_groups[g] EXCEPT
                    !.members = [m \in DOMAIN query_groups[g].members |->
                                    At(query_groups[g].members[m])]]]
          /\ \E k \in TopKs :
                result' = Returned("time", k, Slice([i \in DOMAIN p |-> i], k))
    /\ UNCHANGED <<found, disk, file_list, file_stats, pc, fi, total_queries, matches,
                   file_queries, content_len, runs, first_run, printed>>

GetTopKByTime ==
    /\ Callable
    /\ \E k \in TopKs : result' = TopKByTime(queries, k)
    /\ UNCHANGED frame

GetTopKByTotalTime ==
    /\ Callable
    /\ \E k \in TopKs : result' = TopKByTotalTime(query_groups, queries, k)
    /\ UNCHANGED frame

GetStatistics ==
    /\ Callable
    /\ result' = LET st == Statistics(file_list, query_groups, queries, file_stats)
                 IN IF st = ZeroDivisionError THEN Raised(st)
                    ELSE Returned("stats", 0, st)
    /\ UNCHANGED frame

GenerateReport ==
    /\ Callable
    /\ \E k \in TopKs : result' = Report(file_list, query_groups, queries, file_stats, k)
    /\ UNCHANGED frame

\* the caller is done with the value the last call returned
DropResult ==
    /\ result # None
    /\ result' = None
    /\ UNCHANGED frame

\* ---------------------------------------------------------------------- main
\* line 470: if not analyzer.queries
NoQueries(qs) == qs = <<>>

\* the title of the data section, lines 497-505
Title(sort_by) ==
    CASE sort_by = "hits" -> "BY FREQUENCY"
      [] sort_by = "time" -> "SLOWEST INDIVIDUAL"
      [] sort_by = "total-time" -> "BY TOTAL EXECUTION TIME"

\* main, lines 468-471: parse_log_files has returned and there is no record: return
MainReturn ==
    /\ pc = "done"
    /\ runs = 1
    /\ result = None
    /\ NoQueries(queries)
    /\ pc' = "exit"
    /\ UNCHANGED <<found, disk, file_list, queries, query_groups, file_stats, fi,
                   total_queries, matches, file_queries, content_len, runs, first_run,
                   result, printed>>

\* main, lines 482-533 (table format): the statistics are printed and, unless
\* --stats-only, the requested view
MainReport ==
    /\ pc = "done"
    /\ runs = 1
    /\ result = None
    /\ ~NoQueries(queries)
    /\ \E stats_only \in BOOLEAN, sort_by \in {"hits", "time", "total-time"} :
         printed' = IF stats_only THEN <<"STATISTICS">>
                    ELSE <<"STATISTICS", Title(sort_by)>>
    /\ pc' = "exit"
    /\ UNCHANGED <<found, disk, file_list, queries, query_groups, file_stats, fi,
                   total_queries, matches, file_queries, content_len, runs, first_run,
                   result>>

Next ==
    \/ ParseLogFiles
    \/ ParseSingleFile
    \/ AppendQuery
    \/ AppendGroup
    \/ FileDone
    \/ ParseReturn
    \/ Interrupt
    \/ GetTopKByHits
    \/ GetTopKByTime
    \/ GetTopKByTotalTime
    \/ GetStatistics
    \/ GenerateReport
    \/ DropResult
    \/ MainReturn
    \/ MainReport

Spec == Init /\ [][Next]_vars

\* ------------------------------------------------------------ classification
\* SQL fragments as concatenations of at most MaxPieces pieces of text
Pieces == { <<"S","e","l","e","c","t"," ">>,
            <<"I","n","s","e","r","t"," ">>,
            <<"U","p","d","a","t","e"," ">>,
            <<"D","e","l","e","t","e"," ">>,
            <<"F","R","O","M"," ">>,
            <<"x","F","r","o","m"," ">>,
            <<"I","N","T","O"," ">>,
            <<"T","1"," ">> }

RECURSIVE Concats(_)
Concats(n) ==
    IF n = 0 THEN {<<>>}
    ELSE {<<>>} \cup {p \o rest : p \in Pieces, rest \in Concats(n - 1)}

ClassifyEntries == {Entry(<<"7">>, q) : q \in Concats(MaxPieces)}

\* one file, holding at most one token
InitClassify == InitOver(<<AllPaths[1]>>, ClassifyEntries, 1, 1)

SpecClassify == InitClassify /\ [][Next]_vars

\* ==================================================================== claims
Rows == IF result.kind \in {"hits", "time", "total"} THEN result.value ELSE <<>>

RECURSIVE TimeOver(_, _)
TimeOver(qs, refs) ==
    IF refs = {} THEN 0
    ELSE LET r == CHOOSE r \in refs : TRUE
         IN qs[r].execution_time + TimeOver(qs, refs \ {r})

\* the references held by the group of the given key
MembersOf(key) ==
    UNION {Range(query_groups[g].members) :
              g \in {h \in DOMAIN query_groups : query_groups[h].key = key}}

RecordsOfType(key) == {j \in DOMAIN queries : queries[j].query_type = key}

\* C1: after a completed parse, each group summary of get_top_k_by_hits and
\* get_top_k_by_total_time (k at least the number of groups) has as hits the
\* number of records of self.queries of its query_type, and every query_type
\* of self.queries has exactly one summary.
C1_HitsCountTheRecords ==
    (pc = "done" /\ result.kind \in {"hits", "total"} /\ result.k >= Len(query_groups)) =>
        /\ \A i \in DOMAIN Rows :
              Rows[i].hits = Cardinality(RecordsOfType(Rows[i].query_type))
        /\ \A j \in DOMAIN queries :
              Cardinality({i \in DOMAIN Rows :
                              Rows[i].query_type = queries[j].query_type}) = 1

C1_Witness ==
    /\ pc = "done"
    /\ result.kind = "hits"
    /\ result.k >= Len(query_groups)
    /\ Len(Rows) = 2
    /\ \E i \in DOMAIN Rows : Rows[i].hits >= 2

AtLeastByHits(h1, t1, h2, t2) == h1 > h2 \/ (h1 = h2 /\ t1 >= t2)

C4_ByTimeStable ==
    result.kind = "time" =>
        \A i, j \in DOMAIN Rows : i < j =>
            \/ queries[Rows[i]].execution_time > queries[Rows[j]].execution_time
            \/ /\ queries[Rows[i]].execution_time = queries[Rows[j]].execution_time
               /\ Rows[i] < Rows[j]

C4_Witness ==
    /\ result.kind = "time"
    /\ \E i, j \in DOMAIN Rows :
          i < j /\ queries[Rows[i]].execution_time = queries[Rows[j]].execution_time
    /\ \E i, j \in DOMAIN Rows : i < j /\ Rows[i] > Rows[j]

\* every record of self.queries is held by the group of its query_type, and
\* every group holds only records of its key
Consistent ==
    /\ \A j \in DOMAIN queries : j \in MembersOf(queries[j].query_type)
    /\ \A g \in DOMAIN query_groups : \A x \in Range(query_groups[g].members) :
          x \in DOMAIN queries /\ queries[x].query_type = query_groups[g].key

\* C5: when the run is interrupted while files are processed, no record is
\* in self.queries and not in its group, or the reverse.
C5_InterruptedStateValid == pc = "interrupted" => Consistent

\* C6: a second parse_log_files on the same unchanged files leaves the group
\* keys, the hits and the execution-time sum of each group as the first left
\* them.
C6_SecondRunSameGroups ==
    (pc = "done" /\ runs >= 2) => Summary(query_groups, queries) = first_run

\* C7: with no record, get_statistics returns {}, no statistics or ranking
\* operation (generate_report included) raises ZeroDivisionError, and main
\* leaves before it prints any section of the report.
C7_EmptyCorpus ==
    /\ queries = <<>> =>
          /\ result.kind # "raised"
          /\ result.kind = "stats" => result.value = EmptyDict
          /\ result.kind = "report" =>
                /\ result.value.statistics = EmptyDict
                /\ result.value.top_by_hits = <<>>
                /\ result.value.top_by_individual_time = <<>>
                /\ result.value.top_by_total_time = <<>>
          /\ Rows = <<>>
          /\ printed = <<>>
    /\ (pc = "exit" /\ printed = <<>>) => queries = <<>>

\* both files processed, no record, and a report generated
C7_Witness ==
    /\ pc = "done"
    /\ Len(file_list) = 2
    /\ \E i \in DOMAIN disk : disk[i].text # <<>>
    /\ queries = <<>>
    /\ result.kind = "report"

\* what a ranking operation ranks: the groups, or the records
Available == IF result.kind = "time" THEN Len(queries) ELSE Len(query_groups)

\* the rows are distinct groups, or distinct records
RowsDistinct ==
    \A i, j \in DOMAIN Rows : i # j =>
        IF result.kind = "time" THEN Rows[i] # Rows[j]
        ELSE Rows[i].query_type # Rows[j].query_type

\* the rows are all the groups, or all the records
RowsAll ==
    IF result.kind = "time" THEN Range(Rows) = DOMAIN queries
    ELSE {Rows[i].query_type : i \in DOMAIN Rows}
             = {query_groups[g].key : g \in DOMAIN query_groups}

\* C8 as stated: for every requested k the result of a ranking operation
\* has at most k items, and all the groups (records), each once, when k
\* exceeds their number.
C8_AtMostK ==
    result.kind \in {"hits", "time", "total"} =>
        /\ Len(Rows) <= result.k
        /\ result.k > Available => (RowsDistinct /\ RowsAll)

\* C8 amended: for every requested k >= 0 the result has min(k, n) items,
\* distinct, and all n of them when k >= n; for k < 0 it has max(0, n + k)
\* items; no ranking operation raises.
C8_TruncationToK ==
    /\ result.kind # "raised"
    /\ result.kind \in {"hits", "time", "total"} =>
          /\ RowsDistinct
          /\ result.k >= 0 => Len(Rows) = MinOf(result.k, Available)
          /\ result.k >= Available => RowsAll
          /\ result.k < 0 => Len(Rows) = MaxOf(0, Available + result.k)

C8_Witness ==
    /\ result.kind = "total"
    /\ Len(query_groups) = 2
    /\ result.k > 2
    /\ Len(Rows) = 2

\* the file at found[i] cannot be read or decoded, or holds no entry
Fruitless(i) == ~disk[i].readable \/ \A t \in DOMAIN disk[i].text : disk[i].text[t].junk

\* the base names of the files, each as often as the file has entries, in
\* the order of the file list from file i on
RECURSIVE SourcesFrom(_)
SourcesFrom(i) ==
    IF i > Len(found) THEN <<>>
    ELSE [e \in 1..Cardinality({t \in DOMAIN disk[i].text : ~disk[i].text[t].junk})
             |-> found[i].base] \o SourcesFrom(i + 1)

\* C9: a file that cannot be read or decoded, or that holds no entry, adds no
\* record and leaves the records and the groups of earlier files as they
\* are, and the next file of the list is processed: when parse_log_files
\* returns, self.queries holds the entries of every file in the list's order.
C9_FruitlessFileSkipped ==
    /\ [][(pc = "loop" /\ fi \in DOMAIN file_list /\ Fruitless(fi) /\ pc' # "interrupted")
            => /\ queries' = queries
               /\ query_groups' = query_groups
               /\ pc' = "loop"
               /\ fi' = fi + 1]_vars
    /\ []((pc = "done" /\ runs = 1) =>
            [j \in DOMAIN queries |-> queries[j].source_file] = SourcesFrom(1))

\* an unreadable file, then a file with entries, both processed
C9_Witness ==
    /\ pc = "done"
    /\ runs = 1
    /\ Len(file_list) = 2
    /\ ~disk[1].readable
    /\ queries # <<>>

\* re.search(r'\bfrom\s+(\w+)', s): the group of the leftmost match that
\* starts at a word boundary, <<>> when none
FromKeywordGroup(s) ==
    LET At(i) == /\ MatchEnd(s, i, <<kwFrom>>) # 0
                 /\ (i = 1 \/ ~IsWord(s[i - 1]))
    IN IF \E i \in DOMAIN s : At(i)
       THEN LET i == CHOOSE i \in DOMAIN s : At(i) /\ \A m \in 1..(i-1) : ~At(m)
                k == MatchEnd(s, i, <<kwFrom>>)
            IN SubSeq(s, k, SkipWord(s, k) - 1)
       ELSE <<>>

\* the classification the claim gives a trimmed fragment
Claimed(query) ==
    LET q == Lower(query)
        Or(g) == IF g = <<>> THEN Unknown ELSE g
    IN IF StartsWith(q, kwSelect) THEN <<"SELECT", Or(FromKeywordGroup(q))>>
       ELSE IF StartsWith(q, kwInsert) THEN <<"INSERT", Or(ReSearchGroup(q, <<kwInsert, kwInto>>))>>
       ELSE IF StartsWith(q, kwUpdate) THEN <<"UPDATE", Or(ReSearchGroup(q, <<kwUpdate>>))>>
       ELSE IF StartsWith(q, kwDelete) THEN <<"DELETE", Or(ReSearchGroup(q, <<kwDelete, kwFrom>>))>>
       ELSE <<"OTHER", Unknown>>

\* C10: every record has the operation of its leading keyword and as table
\* the lower-cased first identifier after a from keyword (at a word
\* boundary), insert into, update or delete from, else unknown; its
\* query_type is "<operation> <table>".
C10_ClassifiedByKeyword ==
    \A j \in DOMAIN queries :
        /\ <<queries[j].operation, queries[j].table>> = Claimed(queries[j].query)
        /\ queries[j].query_type
               = OpChars(queries[j].operation) \o <<" ">> \o queries[j].table

\* C11: get_top_k_by_hits, get_top_k_by_time, get_top_k_by_total_time,
\* get_statistics and generate_report, in any order and any number of times,
\* leave self.queries, self.query_groups (keys, members and their order) and
\* self.file_stats as they are, so what a view returned is what it returns
\* on the state as it is now, whatever was computed before it.
C11_ViewsReadOnly ==
    /\ [][(result = None /\ result' # None) =>
             /\ queries' = queries
             /\ query_groups' = query_groups
             /\ file_stats' = file_stats]_vars
    /\ [](/\ result.kind = "hits" =>
               result = TopKByHits(query_groups, queries, result.k)
          /\ result.kind = "time" => result = TopKByTime(queries, result.k)
          /\ result.kind = "total" =>
               result = TopKByTotalTime(query_groups, queries, result.k)
          /\ result.kind = "stats" =>
               result.value = Statistics(file_list, query_groups, queries, file_stats)
          /\ result.kind = "report" =>
               result = Report(file_list, query_groups, queries, file_stats, result.k))

\* a report whose lists are ordered otherwise than the records and the
\* groups are held
C11_Witness ==
    /\ pc = "done"
    /\ result.kind = "report"
    /\ Len(result.value.top_by_individual_time) >= 2
    /\ result.value.top_by_individual_time[1] > result.value.top_by_individual_time[2]
    /\ Len(result.value.top_by_hits) = 2
    /\ query_groups[1].key = result.value.top_by_hits[2].query_type

\* the sum of the queries counts of the entries of source_files
RECURSIVE QueriesOver(_, _)
QueriesOver(source_files, names) ==
    IF names = {} THEN 0
    ELSE LET b == CHOOSE b \in names : TRUE
         IN source_files[b].queries + QueriesOver(source_files, names \ {b})

\* C12: after a completed run with at least one record, the queries counts
\* of get_statistics()['source_files'] sum to total_slow_queries, and each
\* entry's count is the number of records of self.queries whose source_file
\* is that base name, also when paths of the list share a base name.
C12_FileBreakdownSums ==
    (pc = "done" /\ runs = 1 /\ result.kind = "stats" /\ queries # <<>>) =>
        LET sf == result.value.source_files
        IN /\ QueriesOver(sf, DOMAIN sf) = result.value.total_slow_queries
           /\ \A b \in DOMAIN sf :
                 sf[b].queries
                     = Cardinality({j \in DOMAIN queries : queries[j].source_file = b})

====
